---- MODULE Spec2Model ----
(***************************************************************************)
(* Model of the widget backend in src/main.py: the six *_table handlers    *)
(* and the six *_performance handlers, with the window arithmetic and the  *)
(* per-symbol metric computation they repeat.                              *)
(*                                                                         *)
(* Time.  An instant is an integer number of ticks; a calendar day has     *)
(* TicksPerDay ticks, tick 0 of a day being 00:00.  Days are proleptic     *)
(* Gregorian ordinals as datetime.toordinal() counts them.                 *)
(*                                                                         *)
(* Numbers.  A float is NaN, +inf, -inf or a rational n/d in lowest terms  *)
(* (d > 0).  Arithmetic follows numpy float64 scalars: division by zero    *)
(* gives inf or NaN and never raises, a fractional power of a negative     *)
(* base gives NaN.  Rounding error of the binary representation is         *)
(* modelled where the code's result depends on it (round of a two decimal  *)
(* value to one decimal); the fractional power is computed in fixed point  *)
(* with scale FP.                                                          *)
(***************************************************************************)
EXTENDS Integers, Sequences, FiniteSets, TLC

VARIABLES pc, request, end_date, windows, fetch_start, idx, df, results,
          fetched, printed, response, cin, cout, clock, rq

vars == <<pc, request, end_date, windows, fetch_start, idx, df, results,
          fetched, printed, response, cin, cout, clock, rq>>

\* the system clock and the locals of the requests that run side by side
two == <<clock, rq>>

(***************************************************************************)
(* Bounds of the model.                                                    *)
(***************************************************************************)
\* symbols of a basket that are modelled (the first MaxBasket of each)
MaxBasket == 2
\* longest series the calculator is applied to
MaxLen == 3
\* resolution of the time of day
TicksPerDay == 2

(***************************************************************************)
(* Small arithmetic helpers.                                               *)
(***************************************************************************)
Abs(x) == IF x < 0 THEN -x ELSE x

Min(a, b) == IF a < b THEN a ELSE b

RECURSIVE GCD(_, _)
GCD(a, b) == IF b = 0 THEN a ELSE GCD(b, a % b)

\* n/d rounded to the nearest integer, ties to the even integer (d > 0)
RoundHalfEven(n, d) ==
  LET q == n \div d
      r == n % d
  IN  IF 2 * r < d THEN q
      ELSE IF 2 * r > d THEN q + 1
      ELSE IF q % 2 = 0 THEN q ELSE q + 1

(***************************************************************************)
(* Calendar: datetime(year, month, day) and its ordinal.                   *)
(***************************************************************************)
IsLeap(y) == (y % 4 = 0) /\ ((y % 100 # 0) \/ (y % 400 = 0))

DaysInMonth(y, m) ==
  IF m = 2 THEN (IF IsLeap(y) THEN 29 ELSE 28)
  ELSE IF m \in {4, 6, 9, 11} THEN 30 ELSE 31

\* datetime(y, m, d) raises ValueError unless this holds
ValidDate(y, m, d) == m \in 1..12 /\ d >= 1 /\ d <= DaysInMonth(y, m)

DaysBeforeYear(y) ==
  365 * (y - 1) + ((y - 1) \div 4) - ((y - 1) \div 100) + ((y - 1) \div 400)

RECURSIVE DaysBeforeMonth(_, _)
DaysBeforeMonth(y, m) ==
  IF m = 1 THEN 0 ELSE DaysBeforeMonth(y, m - 1) + DaysInMonth(y, m - 1)

Ordinal(y, m, d) == DaysBeforeYear(y) + DaysBeforeMonth(y, m) + d

\* datetime(y, m, d): the instant 00:00 of that day
Midnight(y, m, d) == Ordinal(y, m, d) * TicksPerDay

\* the instant of a reference datetime [y, m, d, tod]
Instant(dt) == Ordinal(dt.y, dt.m, dt.d) * TicksPerDay + dt.tod

\* timedelta(days = n)
Days(n) == n * TicksPerDay

\* (a - b).days of two instants
DeltaDays(a, b) == (a - b) \div TicksPerDay

\* strftime("%Y-%m-%d"): the calendar day of an instant, time of day dropped
Strftime(t) == t \div TicksPerDay

\* pd.to_datetime of a date string: 00:00 of that day
DayStart(day) == day * TicksPerDay

(***************************************************************************)
(* Floats.                                                                 *)
(***************************************************************************)
NaN == [k |-> "nan"]

PosInf == [k |-> "inf", s |-> 1]

NegInf == [k |-> "inf", s |-> -1]

Null == [k |-> "null"]

\* the rational n/d (d # 0) in lowest terms
Fin(n, d) ==
  LET g == GCD(Abs(n), Abs(d))
      s == IF d < 0 THEN -1 ELSE 1
  IN  [k |-> "fin", n |-> (s * n) \div g, d |-> (s * d) \div g]

IsFin(x) == x.k = "fin"

\* np.isnan
IsNaN(x) == x.k = "nan"

Sign(x) ==
  IF x.k = "inf" THEN x.s
  ELSE IF x.n > 0 THEN 1 ELSE IF x.n < 0 THEN -1 ELSE 0

\* a - b
FSub(a, b) ==
  IF IsNaN(a) \/ IsNaN(b) THEN NaN
  ELSE IF a.k = "inf" /\ b.k = "inf"
    THEN (IF a.s = b.s THEN NaN ELSE a)
  ELSE IF a.k = "inf" THEN a
  ELSE IF b.k = "inf" THEN [k |-> "inf", s |-> -b.s]
  ELSE LET g == GCD(a.d, b.d)
       IN  Fin(a.n * (b.d \div g) - b.n * (a.d \div g), a.d * (b.d \div g))

\* a / b of two float64 scalars: a zero divisor gives inf or NaN, no exception
FDiv(a, b) ==
  IF IsNaN(a) \/ IsNaN(b) THEN NaN
  ELSE IF a.k = "inf" /\ b.k = "inf" THEN NaN
  ELSE IF a.k = "inf"
    THEN [k |-> "inf", s |-> a.s * (IF Sign(b) < 0 THEN -1 ELSE 1)]
  ELSE IF b.k = "inf" THEN Fin(0, 1)
  ELSE IF b.n = 0
    THEN (IF a.n = 0 THEN NaN ELSE [k |-> "inf", s |-> Sign(a)])
  ELSE LET g1 == GCD(Abs(a.n), Abs(b.n))
           g2 == GCD(a.d, b.d)
       IN  Fin((a.n \div g1) * (b.d \div g2), (a.d \div g2) * (b.n \div g1))

\* a * c for a positive integer c
FScale(a, c) == IF IsFin(a) THEN Fin(a.n * c, a.d) ELSE a

(***************************************************************************)
(* Rounding.                                                               *)
(***************************************************************************)
\* floor(log2(n/d)) for n, d > 0
RECURSIVE Log2Floor(_, _)
Log2Floor(n, d) ==
  IF n >= 2 * d THEN 1 + Log2Floor(n, 2 * d)
  ELSE IF n < d THEN Log2Floor(2 * n, d) - 1
  ELSE 0

RECURSIVE Pow2Mod100(_)
Pow2Mod100(p) == IF p = 0 THEN 1 ELSE (2 * Pow2Mod100(p - 1)) % 100

\* Sign of double(k/100) - k/100 for an integer k > 0, double(.) being the
\* nearest float64 (53 significant bits): the part of k/100 below the last
\* kept bit is ((k * 2^p) mod 100)/100 of that bit, p = 52 - floor(log2(k/100)).
DoubleErr(k) ==
  LET p == 52 - Log2Floor(k, 100)
      frac == ((k % 100) * Pow2Mod100(p)) % 100
  IN  IF frac = 0 THEN 0 ELSE IF frac > 50 THEN 1 ELSE -1

\* round(x, 2) of a float64 scalar: rint(x * 100) / 100
Round2(x) == IF IsFin(x) THEN Fin(RoundHalfEven(x.n * 100, x.d), 100) ELSE x

\* round(float(x), 1): the nearest multiple of 0.1 of the stored double.  A
\* decimal tie (x = j/20, j odd) is a tie of the double only when x is a
\* multiple of 1/4; otherwise the side the double lies on decides.
Round1(x) ==
  IF ~IsFin(x) THEN x
  ELSE IF 2 * ((x.n * 10) % x.d) # x.d THEN Fin(RoundHalfEven(x.n * 10, x.d), 10)
  ELSE IF 4 % x.d = 0 THEN Fin(RoundHalfEven(x.n * 10, x.d), 10)
  ELSE LET lo  == (x.n * 10) \div x.d
           mag == DoubleErr(Abs(x.n) * (100 \div x.d))
           up  == IF x.n > 0 THEN mag > 0 ELSE mag < 0
       IN  Fin(IF up THEN lo + 1 ELSE lo, 10)

(***************************************************************************)
(* The fractional power base ** (1 / years), years = days / 365.25, in     *)
(* fixed point: exp(ln(base) * 365.25 / days).                             *)
(***************************************************************************)
FP == 10000

LN2FP == 6931

\* halve n and d until n + d fits the fixed-point products
RECURSIVE Shrink(_, _)
Shrink(n, d) == IF n + d > 100000 THEN Shrink(n \div 2, d \div 2) ELSE <<n, d>>

\* a * b in fixed point
FPMul(a, b) == RoundHalfEven(a * b, FP)

\* 2 * atanh(z) = 2 * (z + z^3/3 + z^5/5 + z^7/7) for |z| <= 1/5
LnSeries(z) ==
  LET z2 == FPMul(z, z)
      z3 == FPMul(z, z2)
      z5 == FPMul(z3, z2)
      z7 == FPMul(z5, z2)
  IN  2 * (z + RoundHalfEven(z3, 3) + RoundHalfEven(z5, 5) + RoundHalfEven(z7, 7))

\* ln(n/d) * FP for n, d > 0
RECURSIVE LnFP(_, _)
LnFP(n, d) ==
  IF 3 * n > 4 * d THEN LN2FP + LnFP(n, 2 * d)
  ELSE IF 3 * n < 2 * d THEN LnFP(2 * n, d) - LN2FP
  ELSE LET s == Shrink(n, d)
       IN  LnSeries(RoundHalfEven((s[1] - s[2]) * FP, s[1] + s[2]))

\* sum of term + term*t/i + term*t^2/(i(i+1)) + ... until the terms vanish
RECURSIVE ExpTerms(_, _, _)
ExpTerms(t, term, i) ==
  IF term = 0 \/ i > 12 THEN 0
  ELSE term + ExpTerms(t, RoundHalfEven(term * t, FP * i), i + 1)

\* exp(t / FP) * FP
ExpFP(t) == ExpTerms(t, FP, 1)

\* base ** (1 / (days / 365.25)) for a float64 base and days > 0
PowInvYears(base, days) ==
  IF IsNaN(base) THEN NaN
  ELSE IF base.k = "inf" THEN PosInf
  ELSE IF base.n < 0 THEN NaN
  ELSE IF base.n = 0 THEN Fin(0, 1)
  ELSE IF base.n = base.d THEN Fin(1, 1)
  ELSE Fin(ExpFP(RoundHalfEven(LnFP(base.n, base.d) * 1461, 4 * days)), FP)

(***************************************************************************)
(* Window starts (the same five expressions in every handler).             *)
(***************************************************************************)
\* datetime(end_date.year - 5, ...) or datetime(end_date.year - 10, ...)
\* raises ValueError: the day does not exist in that year
WindowsRaise(now) ==
  \/ ~ValidDate(now.y - 5, now.m, now.d)
  \/ ~ValidDate(now.y - 10, now.m, now.d)

start_ytd(now) == Midnight(now.y, 1, 1)

start_mtd(now) == Midnight(now.y, now.m, 1)

\* mutant of start_5d: the time of day is dropped
start_5d_midnight(now) == Midnight(now.y, now.m, now.d) - Days(5)

start_5d(now) == Instant(now) - Days(5)

\* mutant of start_5y: five days for five years
start_5y_as_days(now) == Instant(now) - Days(5)

start_5y(now) == Midnight(now.y - 5, now.m, now.d)

\* mutant of start_10y: the year of the 5y window start
start_10y_copied(now) == Midnight(now.y - 5, now.m, now.d)

start_10y(now) == Midnight(now.y - 10, now.m, now.d)

(***************************************************************************)
(* The per-symbol computation of a table handler.  A frame is what         *)
(* .to_df() returns: hasClose tells whether it has a 'close' column, pts   *)
(* is the sequence of its rows [t |-> day, close |-> float] in row order.  *)
(***************************************************************************)
\* mutant of IsShort: only an empty frame is skipped
IsShortOnlyEmpty(frame) == Len(frame.pts) = 0

\* mutant of IsShort: a frame of two rows is skipped too
IsShortOffByOne(frame) == Len(frame.pts) <= 2

\* df_historical.empty or len(df_historical) < 2
IsShort(frame) == Len(frame.pts) = 0 \/ Len(frame.pts) < 2

\* df_historical['close'] raises KeyError
ComputeRaises(frame) == ~frame.hasClose

\* df_historical['close'].iloc[-1]
LastClose(pts) == pts[Len(pts)].close

\* mutant of Mask: a point on the window start itself is left out
MaskStrict(pts, start) == {i \in 1..Len(pts) : DayStart(pts[i].t) > start}

\* mask = index >= start, index converted by pd.to_datetime
Mask(pts, start) == {i \in 1..Len(pts) : DayStart(pts[i].t) >= start}

\* mask.any()
MaskAny(pts, start) == Mask(pts, start) # {}

\* mutant of FirstMasked: the last row of the mask (.iloc[-1])
LastMasked(pts, start) ==
  CHOOSE i \in Mask(pts, start) : \A j \in Mask(pts, start) : i >= j

\* position of index[mask][0]: the first row of the frame inside the mask
FirstMasked(pts, start) ==
  CHOOSE i \in Mask(pts, start) : \A j \in Mask(pts, start) : i <= j

\* mutant of Absent: a metric without a reference point is zero
AbsentAsZero == Fin(0, 1)

\* np.nan, the metric of a window that holds no point of the series
Absent == NaN

\* ((latest_close - window_close) / window_close) * 100, or np.nan
ChangePct(pts, start) ==
  IF MaskAny(pts, start)
  THEN LET latest_close == LastClose(pts)
           window_close == pts[FirstMasked(pts, start)].close
       IN  FScale(FDiv(FSub(latest_close, window_close), window_close), 100)
  ELSE Absent

\* mutant of LatestPrice: the last close as it is
LatestPriceUnrounded(pts) == LastClose(pts)

\* round(df_historical['close'].iloc[-1], 2)
LatestPrice(pts) == Round2(LastClose(pts))

\* (((latest_price / start_price) ** (1 / years)) - 1) * 100, or np.nan,
\* years = (end_date - window start).days / 365.25
Cagr(pts, start, now) ==
  IF MaskAny(pts, start)
  THEN LET start_price == pts[FirstMasked(pts, start)].close
           days == DeltaDays(Instant(now), start)
       IN  FScale(FSub(PowInvYears(FDiv(LatestPrice(pts), start_price), days),
                       Fin(1, 1)), 100)
  ELSE Absent

\* mutant of Field: the test is the truth value of x
FieldTruthy(x) == IF x # Fin(0, 1) THEN Round1(x) ELSE Null

\* round(float(x), 1) if not np.isnan(x) else None
Field(x) == IF ~IsNaN(x) THEN Round1(x) ELSE Null

\* mutant of ValueField: the last close is rounded once
ValueFieldDirect(pts) == Round1(LastClose(pts))

\* round(float(latest_price), 1)
ValueField(pts) == Round1(LatestPrice(pts))

\* the dictionary appended to results
ComputeRow(label, name, pts, now) ==
  [label |-> label,
   name  |-> name,
   d5    |-> Field(ChangePct(pts, start_5d(now))),
   mtd   |-> Field(ChangePct(pts, start_mtd(now))),
   ytd   |-> Field(ChangePct(pts, start_ytd(now))),
   y5    |-> Field(Cagr(pts, start_5y(now), now)),
   y10   |-> Field(Cagr(pts, start_10y(now), now)),
   value |-> ValueField(pts)]

(***************************************************************************)
(* The per-symbol computation of a chart handler.                          *)
(***************************************************************************)
\* df_historical['close'] / df_historical['close'].iloc[0] * 100
Normalized(pts) ==
  [i \in 1..Len(pts) |-> FScale(FDiv(pts[i].close, pts[1].close), 100)]

\* go.Scatter(x = index, y = normalized_data, mode = 'lines', name = name)
Trace(name, pts) ==
  [name |-> name,
   x    |-> [i \in 1..Len(pts) |-> pts[i].t],
   y    |-> Normalized(pts)]

(***************************************************************************)
(* Endpoints and their baskets (symbol, display name), in dict order.      *)
(***************************************************************************)
TableEndpoints ==
  {"equities_table", "bonds_table", "commodities_table", "currencies_table",
   "volatility_table", "digital_assets_table"}

ChartEndpoints ==
  {"equity_performance", "bonds_performance", "commodities_performance",
   "currencies_performance", "volatility_performance",
   "digital_assets_performance"}

symbols(e) ==
  CASE e = "equities_table" ->
         << <<"^NDX", "NASDAQ">>, <<"^GSPC", "S&P 500">>,
            <<"VEU", "IEF (Global Ex-US)">>, <<"FEZ", "STOXX 50">>,
            <<"^N225", "NIKKEI">>, <<"ASHR", "CSI 300">> >>
    [] e = "bonds_table" ->
         << <<"SHY", "US Treasury ETF (1-3Y)">>, <<"IEF", "US Treasury ETF (7-10Y)">>,
            <<"TLT", "US Treasury ETF (20Y+)">>, <<"HYG", "US HY ETF">>,
            <<"LQD", "US Inv Grade ETF">> >>
    [] e = "commodities_table" ->
         << <<"GLD", "Gold">>, <<"SLV", "Silver">>, <<"CPER", "Copper">>,
            <<"URA", "Uranium">>, <<"BNO", "Brent Crude Oil">>,
            <<"USO", "WTI Crude Oil">> >>
    [] e = "currencies_table" ->
         << <<"DX-Y.NYB", "US Dollar Index (DXY)">>, <<"EURUSD=X", "EUR/USD">>,
            <<"JPYUSD=X", "JPY/USD">>, <<"GBPUSD=X", "GBP/USD">> >>
    [] e = "volatility_table" ->
         << <<"^VIX", "VIX">>, <<"MOVE", "MOVE">> >>
    [] e = "digital_assets_table" ->
         << <<"BTC-USD", "Bitcoin USD">>, <<"ETH-USD", "Ethereum USD">>,
            <<"SOL-USD", "Solana USD">> >>
    [] e = "equity_performance" ->
         << <<"^GSPC", "S&P 500">>, <<"^DJI", "Dow Jones">>, <<"^IXIC", "NASDAQ">>,
            <<"^FTSE", "FTSE 100">>, <<"^N225", "Nikkei 225">>,
            <<"^HSI", "Hang Seng">> >>
    [] e = "bonds_performance" ->
         << <<"SHY", "US Treasury ETF (1-3Y)">>, <<"IEF", "US Treasury ETF (7-10Y)">>,
            <<"TLT", "US Treasury ETF (20Y+)">>, <<"HYG", "US HY ETF">>,
            <<"LQD", "US Inv Grade ETF">> >>
    [] e = "commodities_performance" ->
         << <<"GLD", "Gold">>, <<"SLV", "Silver">>, <<"CPER", "Copper">>,
            <<"URA", "Uranium">>, <<"BNO", "Brent Crude Oil">>,
            <<"USO", "WTI Crude Oil">> >>
    [] e = "currencies_performance" ->
         << <<"DX-Y.NYB", "US Dollar Index (DXY)">>, <<"EURUSD=X", "EUR/USD">>,
            <<"JPYUSD=X", "JPY/USD">>, <<"GBPUSD=X", "GBP/USD">> >>
    [] e = "volatility_performance" ->
         << <<"^VIX", "VIX">>, <<"MOVE", "MOVE">> >>
    [] e = "digital_assets_performance" ->
         << <<"BTC-USD", "Bitcoin USD">>, <<"ETH-USD", "Ethereum USD">>,
            <<"SOL-USD", "Solana USD">> >>

\* the part of the basket the model iterates over
Basket(e) == SubSeq(symbols(e), 1, Min(Len(symbols(e)), MaxBasket))

\* key of the display name in a row of the table
LabelField(e) ==
  CASE e = "equities_table" -> "Index"
    [] e = "bonds_table" -> "ETF"
    [] e = "commodities_table" -> "ETF"
    [] e = "currencies_table" -> "Currency"
    [] e = "volatility_table" -> "Index"
    [] e = "digital_assets_table" -> "Asset"

(***************************************************************************)
(* The start_date parameter of a chart handler: a string, as a sequence of *)
(* characters.                                                             *)
(***************************************************************************)
UpperCase ==
  <<"A", "B", "C", "D", "E", "F", "G", "H", "I", "J", "K", "L", "M",
    "N", "O", "P", "Q", "R", "S", "T", "U", "V", "W", "X", "Y", "Z">>

LowerCase ==
  <<"a", "b", "c", "d", "e", "f", "g", "h", "i", "j", "k", "l", "m",
    "n", "o", "p", "q", "r", "s", "t", "u", "v", "w", "x", "y", "z">>

LowerChar(c) ==
  IF \E i \in 1..26 : UpperCase[i] = c
  THEN LowerCase[CHOOSE i \in 1..26 : UpperCase[i] = c]
  ELSE c

\* mutant of Lower: the string is used as given
LowerMissing(str) == str

\* str.lower()
Lower(str) == [i \in 1..Len(str) |-> LowerChar(str[i])]

\* the default of the parameter
DefaultStartDate == <<"y", "t", "d">>

Omitted == <<"<", "o", "m", "i", "t", "t", "e", "d", ">">>

\* the value bound to start_date when the handler is called
Bound(arg) == IF arg = Omitted THEN DefaultStartDate ELSE arg

\* the dictionary time_periods
time_periods(now) ==
  [key \in {<<"5", "d">>, <<"m", "t", "d">>, <<"y", "t", "d">>,
            <<"5", "y">>, <<"1", "0", "y">>} |->
     CASE key = <<"5", "d">> -> Instant(now) - Days(5)
       [] key = <<"m", "t", "d">> -> Midnight(now.y, now.m, 1)
       [] key = <<"y", "t", "d">> -> Midnight(now.y, 1, 1)
       [] key = <<"5", "y">> -> Midnight(now.y - 5, now.m, now.d)
       [] key = <<"1", "0", "y">> -> Midnight(now.y - 10, now.m, now.d)]

\* time_periods.get(start_date.lower(), time_periods['ytd'])
ResolveStart(str, now) ==
  IF Lower(str) \in DOMAIN time_periods(now)
  THEN time_periods(now)[Lower(str)]
  ELSE time_periods(now)[<<"y", "t", "d">>]

(***************************************************************************)
(* Inputs: the reference instants, the start_date arguments and the        *)
(* answers of the data provider that are explored.                         *)
(***************************************************************************)
Dates == {<<2020, 1, 2>>, <<2023, 3, 15>>, <<2024, 2, 29>>}

Nows ==
  {[y |-> c[1], m |-> c[2], d |-> c[3], tod |-> tod] :
     c \in Dates, tod \in 0..(TicksPerDay - 1)}

Args ==
  {Omitted, <<"y", "t", "d">>, <<"5", "D">>, <<"M", "t", "d">>, <<"5", "y">>,
   <<"1", "0", "Y">>, <<"X", "Y", "Z">>, <<>>}

\* a close given in thousandths
Milli(m) == Fin(m, 1000)

Pt(t, c) == [t |-> t, close |-> c]

Raised == [kind |-> "raise", hasClose |-> FALSE, pts |-> <<>>]

Frame(hasClose, pts) == [kind |-> "frame", hasClose |-> hasClose, pts |-> pts]

\* what obb.equity.price.historical(...).to_df() may do for one symbol
Answers(now) ==
  LET D == Ordinal(now.y, now.m, now.d)
  IN  {Raised,
       Frame(TRUE, <<>>),
       Frame(TRUE, <<Pt(D, Milli(100000))>>),
       Frame(FALSE, <<Pt(D - 1, Milli(100000)), Pt(D, Milli(100000))>>),
       Frame(TRUE, <<Pt(D - 400, Milli(50000)), Pt(D, Milli(100000))>>),
       Frame(TRUE, <<Pt(D - 3, Milli(1746)), Pt(D - 1, Milli(1254))>>)}

NoDate == [y |-> 0, m |-> 0, d |-> 0, tod |-> 0]

NoRequest == [endpoint |-> "", arg |-> <<>>]

NoResponse == [kind |-> "none", body |-> <<>>]

NoInput == [now |-> NoDate, pts |-> <<>>]

NoRow == [label |-> "", name |-> ""]

NoWindows == [d5 |-> 0, mtd |-> 0, ytd |-> 0, y5 |-> 0, y10 |-> 0]

NoFrame == [index |-> "none", pts |-> <<>>]

NoRequests == <<>>

\* the five locals start_5d, start_mtd, start_ytd, start_5y, start_10y of a
\* table handler
TableWindows(now) ==
  [d5 |-> start_5d(now), mtd |-> start_mtd(now), ytd |-> start_ytd(now),
   y5 |-> start_5y(now), y10 |-> start_10y(now)]

\* the dictionary time_periods of a chart handler, by period
ChartWindows(now) ==
  [d5 |-> time_periods(now)[<<"5", "d">>],
   mtd |-> time_periods(now)[<<"m", "t", "d">>],
   ytd |-> time_periods(now)[<<"y", "t", "d">>],
   y5 |-> time_periods(now)[<<"5", "y">>],
   y10 |-> time_periods(now)[<<"1", "0", "y">>]]

\* df_historical as .to_df() returns it: the index holds the dates
Received(pts) == [index |-> "date", pts |-> pts]

\* mutant of FrameAfterRow: the frame is cut down to the rows of the 5D mask
\* (df_historical = df_historical[mask_5d]) before the index is converted
FrameAfterMask(frame) ==
  [index |-> "datetime",
   pts |-> [i \in 1..(Len(frame.pts) - 1) |->
              [t |-> DayStart(frame.pts[i + 1].t), close |-> frame.pts[i + 1].close]]]

\* df_historical after the body of the try block: the only assignment to the
\* frame is df_historical.index = pd.to_datetime(df_historical.index); the
\* masks, .any(), .iloc[] and the arithmetic read it
FrameAfterRow(frame) ==
  [index |-> "datetime",
   pts |-> [i \in 1..Len(frame.pts) |->
              [t |-> DayStart(frame.pts[i].t), close |-> frame.pts[i].close]]]

Init ==
  /\ pc = "idle"
  /\ request = NoRequest
  /\ end_date = NoDate
  /\ windows = NoWindows
  /\ fetch_start = 0
  /\ idx = 0
  /\ df = NoFrame
  /\ results = <<>>
  /\ fetched = <<>>
  /\ printed = <<>>
  /\ response = NoResponse
  /\ cin = NoInput
  /\ cout = NoRow
  /\ clock = NoDate
  /\ rq = NoRequests

\* mutant of AppendResult: the item is inserted in front
InsertFirst(out, item) == <<item>> \o out

\* results.append(row) / figure.add_trace(trace)
AppendResult(out, item) == Append(out, item)

\* mutant of Continue: the symbol whose fetch raised is tried again
Retry(i, n) == i

\* mutant of Continue: the loop is left at the first exception
Break(i, n) == n + 1

\* except Exception: print(...); continue -- the position of the loop after
\* an exception at position i of n
Continue(i, n) == i + 1

\* display name of a symbol of the basket
NameOf(e, symbol) ==
  symbols(e)[CHOOSE k \in 1..Len(symbols(e)) : symbols(e)[k][1] = symbol][2]

\* mutant of TableRow: the bonds routine leaves Value at 2 decimals
TableRowBondsValue(e, name, pts, now) ==
  IF e = "bonds_table"
  THEN [ComputeRow(LabelField(e), name, pts, now) EXCEPT !.value = LatestPrice(pts)]
  ELSE ComputeRow(LabelField(e), name, pts, now)

\* the body of the try block of table handler e after the skip (lines
\* 137-204 of get_equities_table, and the same lines of the other five): the
\* six bodies differ in the key of the label only
TableRow(e, name, pts, now) == ComputeRow(LabelField(e), name, pts, now)

(***************************************************************************)
(* A table handler.                                                        *)
(***************************************************************************)
\* entry of the handler up to the loop: end_date = datetime.now(), the five
\* window starts (outside any try), results = []
TableStart(e, now) ==
  /\ pc = "idle"
  /\ request' = [endpoint |-> e, arg |-> <<>>]
  /\ end_date' = now
  /\ IF WindowsRaise(now)
     THEN /\ pc' = "done"
          /\ response' = [kind |-> "error", body |-> <<"ValueError">>]
          /\ UNCHANGED <<windows, fetch_start, idx, results>>
     ELSE /\ pc' = "loop"
          /\ windows' = TableWindows(now)
          /\ fetch_start' = Strftime(start_10y(now))
          /\ idx' = 1
          /\ results' = <<>>
          /\ UNCHANGED response
  /\ UNCHANGED <<df, fetched, printed, cin, cout>>
  /\ UNCHANGED two

\* one iteration of the loop over symbols.items(): the fetch, then skip,
\* row or exception
TableStep(ans) ==
  /\ pc = "loop"
  /\ request.endpoint \in TableEndpoints
  /\ idx <= Len(Basket(request.endpoint))
  /\ LET symbol == Basket(request.endpoint)[idx][1]
         name == Basket(request.endpoint)[idx][2]
         n == Len(Basket(request.endpoint))
     IN  /\ fetched' = Append(fetched, [symbol |-> symbol, start |-> fetch_start,
                                        ans |-> ans])
         /\ IF ans.kind = "raise"
            THEN /\ printed' = Append(printed, symbol)
                 /\ idx' = Continue(idx, n)
                 /\ UNCHANGED <<df, results>>
            ELSE IF IsShort(ans)
            THEN /\ df' = Received(ans.pts)
                 /\ idx' = idx + 1
                 /\ UNCHANGED <<printed, results>>
            ELSE IF ComputeRaises(ans)
            THEN /\ df' = Received(ans.pts)
                 /\ printed' = Append(printed, symbol)
                 /\ idx' = Continue(idx, n)
                 /\ UNCHANGED results
            ELSE /\ df' = FrameAfterRow(Received(ans.pts))
                 /\ results' = AppendResult(results,
                                            TableRow(request.endpoint, name,
                                                     ans.pts, end_date))
                 /\ idx' = idx + 1
                 /\ UNCHANGED printed
  /\ UNCHANGED <<pc, request, end_date, windows, fetch_start, response, cin,
                 cout>>
  /\ UNCHANGED two

TableIter == pc = "loop" /\ \E ans \in Answers(end_date) : TableStep(ans)

\* return results
TableReturn ==
  /\ pc = "loop"
  /\ request.endpoint \in TableEndpoints
  /\ idx > Len(Basket(request.endpoint))
  /\ pc' = "done"
  /\ response' = [kind |-> "list", body |-> results]
  /\ UNCHANGED <<request, end_date, windows, fetch_start, idx, df, results,
                 fetched, printed, cin, cout>>
  /\ UNCHANGED two

(***************************************************************************)
(* A chart handler.                                                        *)
(***************************************************************************)
\* entry of the handler up to the loop: end_date, the dictionary of the five
\* window starts (outside any try), the start date and the empty figure
ChartStart(e, arg, now) ==
  /\ pc = "idle"
  /\ request' = [endpoint |-> e, arg |-> arg]
  /\ end_date' = now
  /\ IF WindowsRaise(now)
     THEN /\ pc' = "done"
          /\ response' = [kind |-> "error", body |-> <<"ValueError">>]
          /\ UNCHANGED <<windows, fetch_start, idx, results>>
     ELSE /\ pc' = "loop"
          /\ windows' = ChartWindows(now)
          /\ fetch_start' = Strftime(ResolveStart(Bound(arg), now))
          /\ idx' = 1
          /\ results' = <<>>
          /\ UNCHANGED response
  /\ UNCHANGED <<df, fetched, printed, cin, cout>>
  /\ UNCHANGED two

\* one iteration of the loop: the fetch, then skip, trace or exception
ChartStep(ans) ==
  /\ pc = "loop"
  /\ request.endpoint \in ChartEndpoints
  /\ idx <= Len(Basket(request.endpoint))
  /\ LET symbol == Basket(request.endpoint)[idx][1]
         name == Basket(request.endpoint)[idx][2]
         n == Len(Basket(request.endpoint))
     IN  /\ fetched' = Append(fetched, [symbol |-> symbol, start |-> fetch_start,
                                        ans |-> ans])
         /\ IF ans.kind = "raise"
            THEN /\ printed' = Append(printed, symbol)
                 /\ idx' = Continue(idx, n)
                 /\ UNCHANGED <<df, results>>
            ELSE IF IsShort(ans)
            THEN /\ df' = Received(ans.pts)
                 /\ idx' = idx + 1
                 /\ UNCHANGED <<printed, results>>
            ELSE IF ComputeRaises(ans)
            THEN /\ df' = Received(ans.pts)
                 /\ printed' = Append(printed, symbol)
                 /\ idx' = Continue(idx, n)
                 /\ UNCHANGED results
            ELSE /\ df' = Received(ans.pts)
                 /\ results' = AppendResult(results, Trace(name, ans.pts))
                 /\ idx' = idx + 1
                 /\ UNCHANGED printed
  /\ UNCHANGED <<pc, request, end_date, windows, fetch_start, response, cin,
                 cout>>
  /\ UNCHANGED two

ChartIter == pc = "loop" /\ \E ans \in Answers(end_date) : ChartStep(ans)

\* return json.loads(figure.to_json())
ChartReturn ==
  /\ pc = "loop"
  /\ request.endpoint \in ChartEndpoints
  /\ idx > Len(Basket(request.endpoint))
  /\ pc' = "done"
  /\ response' = [kind |-> "chart", body |-> results]
  /\ UNCHANGED <<request, end_date, windows, fetch_start, idx, df, results,
                 fetched, printed, cin, cout>>
  /\ UNCHANGED two

Next ==
  \/ \E e \in TableEndpoints, now \in Nows : TableStart(e, now)
  \/ TableIter
  \/ TableReturn
  \/ \E e \in ChartEndpoints, arg \in Args, now \in Nows : ChartStart(e, arg, now)
  \/ ChartIter
  \/ ChartReturn

Spec == Init /\ [][Next]_vars

\* the handler runs to its return: every fetch returns or raises, and the
\* loop and the return statement are ordinary sequential code
SpecLive ==
  /\ Spec
  /\ WF_vars(TableIter) /\ WF_vars(TableReturn)
  /\ WF_vars(ChartIter) /\ WF_vars(ChartReturn)

(***************************************************************************)
(* The calculator on its own: one series and one reference instant in,     *)
(* one row out.                                                            *)
(***************************************************************************)
\* days before the reference day at which a series may have a point
Offsets == {0, 5, 40, 400, 1827, 3700, 3800}

\* closes of the last point of a series
LastCloses ==
  {Milli(0), Milli(1000), Milli(100000), Milli(1746), Milli(1254), Milli(346), NaN}

\* closes of the earlier points
Closes == {Milli(0), Milli(-1000), Milli(1000), NaN}

\* reference instants: 00:00 and the last tick of a day on which the five
\* window starts exist
CalcNows ==
  {[y |-> c[1], m |-> c[2], d |-> c[3], tod |-> tod] :
     c \in {<<2020, 1, 2>>, <<2023, 3, 15>>}, tod \in {0, TicksPerDay - 1}}

\* reference instants of the window starts alone: the turns of the months
\* around the leap day and of the year, 2011 to 2099
WideNows ==
  {[y |-> y, m |-> c[1], d |-> c[2], tod |-> tod] :
     y \in 2011..2099,
     c \in {<<1, 1>>, <<2, 28>>, <<2, 29>>, <<3, 1>>, <<12, 31>>},
     tod \in {0, TicksPerDay - 1}}

InitCalc ==
  /\ pc = "calc_now"
  /\ request = NoRequest
  /\ end_date = NoDate
  /\ windows = NoWindows
  /\ fetch_start = 0
  /\ idx = 0
  /\ df = NoFrame
  /\ results = <<>>
  /\ fetched = <<>>
  /\ printed = <<>>
  /\ response = NoResponse
  /\ cin \in {[now |-> now, pts |-> <<>>] :
                now \in CalcNows \cup {w \in WideNows : ValidDate(w.y, w.m, w.d)}}
  /\ cout = NoRow
  /\ clock = NoDate
  /\ rq = NoRequests

\* the five window starts of the reference instant (a ValueError where the
\* day does not exist five or ten years earlier)
CalcResolve ==
  /\ pc = "calc_now"
  /\ IF WindowsRaise(cin.now)
     THEN pc' = "calc_error" /\ UNCHANGED windows
     ELSE pc' = "calc_in" /\ windows' = TableWindows(cin.now)
  /\ UNCHANGED <<request, end_date, fetch_start, idx, df, results, fetched,
                 printed, response, cin, cout>>
  /\ UNCHANGED two

\* the series is given point by point, the latest point first: an ascending
\* series with unique timestamps
CalcPoint ==
  /\ pc = "calc_in"
  /\ cin.now \in CalcNows
  /\ Len(cin.pts) < MaxLen
  /\ LET D == Ordinal(cin.now.y, cin.now.m, cin.now.d)
     IN  \E o \in Offsets :
           /\ cin.pts # <<>> => D - o < cin.pts[1].t
           /\ \E c \in (IF cin.pts = <<>> THEN LastCloses ELSE Closes) :
                cin' = [cin EXCEPT !.pts = <<Pt(D - o, c)>> \o cin.pts]
  /\ UNCHANGED <<pc, request, end_date, windows, fetch_start, idx, df, results,
                 fetched, printed, response, cout>>
  /\ UNCHANGED two

\* the body of the try block of a table handler for a frame that is neither
\* short nor without closes
CalcRow ==
  /\ pc = "calc_in"
  /\ Len(cin.pts) >= 2
  /\ df' = FrameAfterRow(Received(cin.pts))
  /\ cout' = ComputeRow("Index", "symbol", cin.pts, cin.now)
  /\ pc' = "calc_done"
  /\ UNCHANGED <<request, end_date, windows, fetch_start, idx, results, fetched,
                 printed, response, cin>>
  /\ UNCHANGED two

\* the body of the try block of a chart handler for the same frame
CalcTrace ==
  /\ pc = "calc_in"
  /\ Len(cin.pts) >= 2
  /\ df' = Received(cin.pts)
  /\ cout' = Trace("symbol", cin.pts)
  /\ pc' = "trace_done"
  /\ UNCHANGED <<request, end_date, windows, fetch_start, idx, results, fetched,
                 printed, response, cin>>
  /\ UNCHANGED two

NextCalc == CalcResolve \/ CalcPoint \/ CalcRow \/ CalcTrace

SpecCalc == InitCalc /\ [][NextCalc]_vars

(***************************************************************************)
(* Properties of the handlers (specification Spec).                        *)
(***************************************************************************)
IsTable == request.endpoint \in TableEndpoints

IsChart == request.endpoint \in ChartEndpoints

\* what the caller receives, or the output built so far
Output == IF response.kind \in {"list", "chart"} THEN response.body ELSE results

Names(out) == [r \in 1..Len(out) |-> out[r].name]

Occurrences(out, name) == Cardinality({r \in 1..Len(out) : out[r].name = name})

\* the provider returned a frame of fewer than 2 rows
ShortAnswer(ans) == ans.kind = "frame" /\ Len(ans.pts) < 2

\* the fetch returned, the series has at least 2 points and has closes to
\* compute with
Survives(ans) == ans.kind = "frame" /\ Len(ans.pts) >= 2 /\ ans.hasClose

\* the fetch or the computation raises
Fails(ans) == ans.kind = "raise" \/ (ans.kind = "frame" /\ Len(ans.pts) >= 2 /\ ~ans.hasClose)

LoopEnded == request.endpoint # "" /\ response.kind # "error"
             /\ idx > Len(Basket(request.endpoint))

\* C1: in a table handler, a symbol whose fetched series is empty or has
\* fewer than 2 points has no row in the output, at any moment of the loop and
\* in the returned list.
C1_ShortSeriesHasNoRow ==
  IsTable =>
    \A k \in 1..Len(fetched) :
      ShortAnswer(fetched[k].ans) =>
        /\ Occurrences(results, NameOf(request.endpoint, fetched[k].symbol)) = 0
        /\ Occurrences(Output, NameOf(request.endpoint, fetched[k].symbol)) = 0

\* a table request returned the row of another symbol after a one-point
\* series was fetched
C1_Witness ==
  /\ IsTable /\ pc = "done" /\ response.kind = "list"
  /\ Len(response.body) >= 1
  /\ \E k \in 1..Len(fetched) : fetched[k].ans.kind = "frame" /\ Len(fetched[k].ans.pts) = 1

\* C2: when the loop over the basket has ended, the output of a table or
\* chart handler holds exactly one row or trace for every basket symbol that
\* survived (fetch returned, at least 2 points, computation did not raise),
\* none for any other symbol, nothing that is not a basket symbol, and so no
\* symbol twice.
C2_OneRowPerSurvivor ==
  LoopEnded =>
    LET basket == Basket(request.endpoint)
    IN  /\ Len(fetched) = Len(basket)
        /\ \A k \in 1..Len(basket) :
             /\ fetched[k].symbol = basket[k][1]
             /\ Occurrences(Output, basket[k][2]) =
                  (IF Survives(fetched[k].ans) THEN 1 ELSE 0)
        /\ \A r \in 1..Len(Output) : \E k \in 1..Len(basket) : Output[r].name = basket[k][2]

\* a request returned with some symbols in the output and some left out
C2_Witness ==
  /\ pc = "done" /\ response.kind \in {"list", "chart"}
  /\ Len(response.body) >= 1
  /\ Len(response.body) < Len(fetched)
  /\ \E k \in 1..Len(fetched) : Survives(fetched[k].ans) /\ Len(fetched[k].ans.pts) = 2

RECURSIVE IsSubsequence(_, _)
IsSubsequence(a, b) ==
  IF a = <<>> THEN TRUE
  ELSE IF b = <<>> THEN FALSE
  ELSE IF Head(a) = Head(b) THEN IsSubsequence(Tail(a), Tail(b))
  ELSE IsSubsequence(a, Tail(b))

\* C3: at every moment and in the response, the display names of the rows or
\* traces, in output order, are a subsequence of the basket's display names in
\* declared order, whatever the outcome of each symbol.
C3_BasketOrderPreserved ==
  request.endpoint # "" =>
    /\ IsSubsequence(Names(results), [k \in 1..Len(symbols(request.endpoint)) |->
                                        symbols(request.endpoint)[k][2]])
    /\ IsSubsequence(Names(Output), [k \in 1..Len(symbols(request.endpoint)) |->
                                       symbols(request.endpoint)[k][2]])

\* two symbols survived, and their answers differ
C3_Witness ==
  /\ pc = "done" /\ response.kind \in {"list", "chart"}
  /\ Len(response.body) = 2
  /\ Len(fetched) = 2
  /\ fetched[1].ans # fetched[2].ans

\* the item a surviving answer contributes to the output of endpoint e
ItemOf(e, entry, now) ==
  IF e \in TableEndpoints
  THEN ComputeRow(LabelField(e), NameOf(e, entry.symbol), entry.ans.pts, now)
  ELSE Trace(NameOf(e, entry.symbol), entry.ans.pts)

\* the output of the loop over a basket whose symbols answer as in entries,
\* none of them failing
RECURSIVE OutputOf(_, _, _)
OutputOf(e, entries, now) ==
  IF entries = <<>> THEN <<>>
  ELSE LET rest == OutputOf(e, SubSeq(entries, 1, Len(entries) - 1), now)
           last == entries[Len(entries)]
       IN  IF Len(last.ans.pts) < 2 THEN rest
           ELSE Append(rest, ItemOf(e, last, now))

NotFailing(entry) == ~Fails(entry.ans)

\* C4: an exception of the fetch or of the computation of one symbol stays
\* inside the loop: every symbol of the basket is still fetched, and the
\* output is the one of the basket without the failing symbols.
C4_FailureIsolated ==
  (pc = "done" /\ response.kind \in {"list", "chart"}) =>
    /\ Len(fetched) = Len(Basket(request.endpoint))
    /\ response.body = OutputOf(request.endpoint, SelectSeq(fetched, NotFailing), end_date)

\* the first symbol failed and a later one is in the response
C4_Witness ==
  /\ pc = "done" /\ response.kind \in {"list", "chart"}
  /\ Len(fetched) >= 2
  /\ Fails(fetched[1].ans)
  /\ Len(response.body) >= 1

\* C5: a request always ends with a list (table) or a chart, never with an
\* exception escaping the handler, for every reference instant.
C5_NoExceptionEscapes ==
  pc = "done" =>
    /\ IsTable => response.kind = "list"
    /\ IsChart => response.kind = "chart"

(***************************************************************************)
(* Properties of the calculator (specification SpecCalc).                  *)
(***************************************************************************)
Computed == pc = "calc_done"

\* the five windows: the field of the row, the window start and the metric
\* before it is turned into a field
Windows ==
  {[field |-> cout.d5,  start |-> start_5d(cin.now),
    raw |-> ChangePct(cin.pts, start_5d(cin.now))],
   [field |-> cout.mtd, start |-> start_mtd(cin.now),
    raw |-> ChangePct(cin.pts, start_mtd(cin.now))],
   [field |-> cout.ytd, start |-> start_ytd(cin.now),
    raw |-> ChangePct(cin.pts, start_ytd(cin.now))],
   [field |-> cout.y5,  start |-> start_5y(cin.now),
    raw |-> Cagr(cin.pts, start_5y(cin.now), cin.now)],
   [field |-> cout.y10, start |-> start_10y(cin.now),
    raw |-> Cagr(cin.pts, start_10y(cin.now), cin.now)]}

\* the window start is earlier than every timestamp of the series
StartPrecedesAll(start) == \A i \in 1..Len(cin.pts) : start < DayStart(cin.pts[i].t)

\* the window start is later than every timestamp of the series
StartFollowsAll(start) == \A i \in 1..Len(cin.pts) : start > DayStart(cin.pts[i].t)

\* C6 as stated: a window whose start precedes every timestamp of the series
\* has a null field.
C6_NullWhenStartPrecedesAll ==
  Computed => \A w \in Windows : StartPrecedesAll(w.start) => w.field = Null

\* C6 as amended: a window whose start is later than every timestamp of the
\* series (no point at or after the start) has a null field, never 0.
C6_NullWhenStartFollowsAll ==
  Computed => \A w \in Windows : StartFollowsAll(w.start) => w.field = Null

\* a row with a window that starts after the whole series and another window
\* that holds a point
C6_Witness ==
  /\ Computed
  /\ StartFollowsAll(start_5d(cin.now)) /\ cout.d5 = Null
  /\ ~StartFollowsAll(start_10y(cin.now)) /\ cout.y10 # Null

\* C7: every metric field of a row is null or a number that is not NaN; it is
\* null exactly when the metric is absent (NaN), and a metric that is exactly
\* zero is reported as 0.0.
C7_NullIffNaN ==
  Computed =>
    \A w \in Windows :
      /\ w.field # NaN
      /\ w.field.k \in {"null", "fin", "inf"}
      /\ (w.field = Null) <=> IsNaN(w.raw)
      /\ (w.raw = Fin(0, 1)) => (w.field = Fin(0, 1))

\* a row with an absent metric next to a metric that is exactly zero
C7_Witness ==
  /\ Computed
  /\ \E w \in Windows : IsNaN(w.raw) /\ w.field = Null
  /\ \E w \in Windows : w.raw = Fin(0, 1) /\ w.field = Fin(0, 1)

\* C8 as stated: Value is the last close rounded to 1 decimal.
C8_ValueIsLastCloseRounded1 ==
  Computed => cout.value = Round1(LastClose(cin.pts))

\* the hundredths digit of a two decimal number is 5
EndsInFive(x) == IsFin(x) /\ (Abs(x.n) * (100 \div x.d)) % 10 = 5

\* C8 as amended: Value is the last close rounded to 2 decimals and then to 1
\* decimal; it is the last close rounded to 1 decimal whenever the 2 decimal
\* rounding does not end in the digit 5.
C8_ValueIsRounded2Then1 ==
  Computed =>
    /\ cout.value = Round1(Round2(LastClose(cin.pts)))
    /\ ~EndsInFive(Round2(LastClose(cin.pts))) => cout.value = Round1(LastClose(cin.pts))

\* a row whose Value (1.8 for a last close of 1.746) is not the last close
\* rounded to 1 decimal (1.7)
C8_Witness ==
  /\ Computed
  /\ LastClose(cin.pts) = Milli(1746)
  /\ cout.value = Fin(18, 10)

\* the close at the first point at or after start is a number that is zero or
\* negative
NonPositiveAt(start) ==
  /\ MaskAny(cin.pts, start)
  /\ IsFin(cin.pts[FirstMasked(cin.pts, start)].close)
  /\ cin.pts[FirstMasked(cin.pts, start)].close.n <= 0

\* C9: a zero or negative close at the matched 5Y or 10Y point gives a null
\* CAGR field.
C9_NullCagrOnNonPositiveClose ==
  Computed =>
    /\ NonPositiveAt(start_5y(cin.now)) => cout.y5 = Null
    /\ NonPositiveAt(start_10y(cin.now)) => cout.y10 = Null

\* a row whose 5Y reference close is zero while the last close is positive
C9_ZeroCloseGivesInfinity ==
  /\ Computed
  /\ NonPositiveAt(start_5y(cin.now))
  /\ cin.pts[FirstMasked(cin.pts, start_5y(cin.now))].close = Milli(0)
  /\ cout.y5 = PosInf

(***************************************************************************)
(* The start_date parameter (specification Spec).                          *)
(***************************************************************************)
UpperChar(c) ==
  IF \E i \in 1..26 : LowerCase[i] = c
  THEN UpperCase[CHOOSE i \in 1..26 : LowerCase[i] = c]
  ELSE c

SameIgnoringCase(a, b) ==
  Len(a) = Len(b) /\ \A i \in 1..Len(a) : UpperChar(a[i]) = UpperChar(b[i])

\* the period a start_date argument stands for
PeriodOf(arg) ==
  IF arg = Omitted THEN "ytd"
  ELSE IF SameIgnoringCase(arg, <<"5", "d">>) THEN "5d"
  ELSE IF SameIgnoringCase(arg, <<"m", "t", "d">>) THEN "mtd"
  ELSE IF SameIgnoringCase(arg, <<"5", "y">>) THEN "5y"
  ELSE IF SameIgnoringCase(arg, <<"1", "0", "y">>) THEN "10y"
  ELSE "ytd"

\* the calendar day on which the window of a period starts
WindowDay(period, now) ==
  CASE period = "5d" -> Ordinal(now.y, now.m, now.d) - 5
    [] period = "mtd" -> Ordinal(now.y, now.m, 1)
    [] period = "ytd" -> Ordinal(now.y, 1, 1)
    [] period = "5y" -> Ordinal(now.y - 5, now.m, now.d)
    [] period = "10y" -> Ordinal(now.y - 10, now.m, now.d)

\* C10: in a chart handler the fetch start is the window start of the period
\* named by start_date without regard to case, and the ytd window start for
\* any other string or an omitted parameter; every fetch of the request uses
\* it, and the argument never makes the request fail (a request fails only on
\* a 29 February, whatever the argument).
C10_StartDateResolution ==
  IsChart =>
    /\ response.kind # "error" =>
         /\ fetch_start = WindowDay(PeriodOf(request.arg), end_date)
         /\ \A k \in 1..Len(fetched) :
              fetched[k].start = WindowDay(PeriodOf(request.arg), end_date)
    /\ response.kind = "error" => (end_date.m = 2 /\ end_date.d = 29)

\* a chart request with start_date = "5D" fetched from five days before now
C10_Witness ==
  /\ IsChart /\ pc = "done" /\ response.kind = "chart"
  /\ request.arg = <<"5", "D">>
  /\ Len(fetched) >= 1
  /\ fetched[1].start = Ordinal(end_date.y, end_date.m, end_date.d) - 5

\* a chart request with an unknown start_date fetched from 1 January
C10_UnknownToken ==
  /\ IsChart /\ pc = "done" /\ response.kind = "chart"
  /\ request.arg = <<"X", "Y", "Z">>
  /\ Len(fetched) >= 1
  /\ fetched[1].start = Ordinal(end_date.y, 1, 1)

(***************************************************************************)
(* The window starts.                                                      *)
(***************************************************************************)
\* the handler has its window starts
Resolved == pc \in {"loop", "done"} /\ response.kind # "error"

\* C11: once a handler, table or chart, has computed its window starts, they
\* are: 5d, five calendar days before now at now's time of day; mtd, 00:00 on
\* day 1 of now's month; ytd, 00:00 on 1 January of now's year; 5y and 10y,
\* 00:00 on now's month and day five and ten years earlier.
C11_WindowStarts ==
  Resolved =>
    /\ windows.d5 = WindowDay("5d", end_date) * TicksPerDay + end_date.tod
    /\ windows.mtd = WindowDay("mtd", end_date) * TicksPerDay
    /\ windows.ytd = WindowDay("ytd", end_date) * TicksPerDay
    /\ windows.y5 = WindowDay("5y", end_date) * TicksPerDay
    /\ windows.y10 = WindowDay("10y", end_date) * TicksPerDay

\* a table request answered after noon: its 5d window starts after noon too,
\* the other four at 00:00
C11_Witness ==
  /\ IsTable /\ pc = "done" /\ response.kind = "list"
  /\ end_date.tod > 0
  /\ windows.d5 % TicksPerDay = end_date.tod
  /\ windows.mtd % TicksPerDay = 0
  /\ windows.y10 < windows.y5 /\ windows.y5 < windows.ytd

(***************************************************************************)
(* The chart normalisation (specification SpecCalc).                       *)
(***************************************************************************)
Traced == pc = "trace_done"

\* C12: every point of a chart trace is close / first close * 100, and the
\* first point of every trace is exactly 100.0, whatever number the first
\* close is, zero included.
C12_FirstPointIs100 ==
  Traced =>
    /\ Len(cout.y) = Len(cin.pts)
    /\ \A i \in 1..Len(cin.pts) :
         LET c == cin.pts[i].close
             c0 == cin.pts[1].close
         IN  (IsFin(c) /\ IsFin(c0) /\ c0.n # 0) =>
               /\ IsFin(cout.y[i])
               /\ cout.y[i].n * c.d * c0.n = cout.y[i].d * c.n * c0.d * 100
    /\ IsFin(cin.pts[1].close) => cout.y[1] = Fin(100, 1)

\* a trace of a series whose first close is zero: its first point is NaN
C12_ZeroFirstClose ==
  /\ Traced
  /\ cin.pts[1].close = Milli(0)
  /\ IsNaN(cout.y[1])

(***************************************************************************)
(* The log (specification Spec).                                           *)
(***************************************************************************)
\* C13: every symbol that was skipped, because its fetch or its computation
\* raised or because its series is empty or has fewer than 2 points, has a
\* log entry naming it as soon as the loop has moved past it.
C13_EverySkipIsLogged ==
  \A k \in 1..Len(fetched) :
    ~Survives(fetched[k].ans) =>
      \E j \in 1..Len(printed) : printed[j] = fetched[k].symbol

(***************************************************************************)
(* The compound annual growth rates (specification SpecCalc).              *)
(***************************************************************************)
\* the first point of the series at or after the instant start is its last
\* point
OnlyLastInWindow(start) ==
  LET n == Len(cin.pts)
  IN  /\ cin.pts[n].t * TicksPerDay >= start
      /\ \A i \in 1..(n - 1) : cin.pts[i].t * TicksPerDay < start

\* C14: when the first point at or after the 5y window start is the last
\* point of the series, the 5Y CAGR of the row is null.
C14_NullWhenMatchIsLastPoint ==
  (Computed /\ OnlyLastInWindow(windows.y5)) => cout.y5 = Null

\* a row whose 5Y CAGR is 0.0 although the only point of the 5y window is the
\* last point of the series
C14_ZeroCagr ==
  /\ Computed /\ OnlyLastInWindow(windows.y5)
  /\ cout.y5 = Fin(0, 1)

\* the two CAGR fields of the row with their window starts
CagrWindows ==
  {[field |-> cout.y5, start |-> windows.y5],
   [field |-> cout.y10, start |-> windows.y10]}

\* index of the earliest point of the series at or after the instant start
MatchedPoint(start) ==
  CHOOSE k \in 1..Len(cin.pts) :
    /\ cin.pts[k].t * TicksPerDay >= start
    /\ \A i \in 1..Len(cin.pts) :
         cin.pts[i].t * TicksPerDay >= start => cin.pts[k].t <= cin.pts[i].t

\* the day of the reference instant
Today == Ordinal(cin.now.y, cin.now.m, cin.now.d)

\* the percentage y is within 0.05 of (ratio ^ (365.25 / days) - 1) * 100 for
\* a positive ratio, compared through the logarithms (4 units of the
\* fixed-point logarithm are allowed on each side)
WithinRoundTrip(y, ratio, days) ==
  LET lhs == LnFP(ratio.n, ratio.d) * 1461
      lo == 2000 * y.d + 20 * y.n - y.d
      hi == 2000 * y.d + 20 * y.n + y.d
  IN  /\ lo > 0 => 4 * days * (LnFP(lo, 2000 * y.d) - 4) <= lhs + 4 * 1461
      /\ lhs - 4 * 1461 <= 4 * days * (LnFP(hi, 2000 * y.d) + 4)

\* C15: for a series whose last point is on the day of now with price P1 and
\* whose matched point of a CAGR window has price P0 on an earlier day T0, the
\* CAGR field is a number within 0.05 of
\* ((P1 / P0) ^ (365.25 / (now - T0).days) - 1) * 100.
C15_CagrRoundTrip ==
  Computed =>
    \A w \in CagrWindows :
      LET n == Len(cin.pts)
          k == MatchedPoint(w.start)
          P0 == cin.pts[k].close
          P1 == cin.pts[n].close
      IN  ( /\ cin.pts[n].t = Today
            /\ cin.pts[n].t * TicksPerDay >= w.start
            /\ cin.pts[k].t < Today
            /\ IsFin(P0) /\ IsFin(P1) /\ P0.n > 0 /\ P1.n > 0 )
          => /\ IsFin(w.field)
             /\ WithinRoundTrip(w.field, FDiv(P1, P0), Today - cin.pts[k].t)

\* a 10Y CAGR of 58.5 for a series that went from 1.0 to 100.0 in 400 days
C15_TenYearExponent ==
  /\ Computed
  /\ Len(cin.pts) = 2
  /\ cin.pts[1] = Pt(Today - 400, Milli(1000))
  /\ cin.pts[2] = Pt(Today, Milli(100000))
  /\ cout.y10 = Fin(585, 10)

(***************************************************************************)
(* The percentage changes (specification SpecCalc).                        *)
(***************************************************************************)
\* the three percentage fields of the row with their window starts
ChangeWindows ==
  {[field |-> cout.d5, start |-> windows.d5],
   [field |-> cout.mtd, start |-> windows.mtd],
   [field |-> cout.ytd, start |-> windows.ytd]}

\* some point of the series is at or after the instant start
InWindow(start) == \E i \in 1..Len(cin.pts) : cin.pts[i].t * TicksPerDay >= start

\* the field f is a number of 1 decimal within 0.05 of (L - R) / R * 100
IsChangeOf(f, L, R) ==
  LET num == (L.n * R.d - R.n * L.d) * 100
      den == L.d * R.n
  IN  /\ IsFin(f)
      /\ 10 % f.d = 0
      /\ Abs(f.n * den - num * f.d) * 20 <= Abs(f.d * den)

\* the field of a window is the change from the earliest point at or after
\* the window start to the last point, whenever both closes are numbers and
\* the earlier one is not zero
ChangeValueOk(w) ==
  LET L == cin.pts[Len(cin.pts)].close
      R == cin.pts[MatchedPoint(w.start)].close
  IN  (InWindow(w.start) /\ IsFin(L) /\ IsFin(R) /\ R.n # 0) =>
        IsChangeOf(w.field, L, R)

\* the change of a window is not a number: a close is NaN, or both closes are
\* zero
ChangeIsNaN(w) ==
  LET L == cin.pts[Len(cin.pts)].close
      R == cin.pts[MatchedPoint(w.start)].close
  IN  IsNaN(L) \/ IsNaN(R) \/ (L = Milli(0) /\ R = Milli(0))

\* C16 as stated: each of 5D, MTD, YTD is the change from the earliest point
\* at or after the window start to the unrounded last close, rounded to 1
\* decimal, and is null exactly when no point is at or after the window start.
C16_NullExactlyWhenNoPoint ==
  Computed =>
    \A w \in ChangeWindows :
      /\ ChangeValueOk(w)
      /\ w.field = Null <=> ~InWindow(w.start)

\* C16, amended: each of 5D, MTD, YTD is the change from the earliest point
\* at or after the window start to the unrounded last close, rounded to 1
\* decimal; it is null when no point is at or after the window start and,
\* with such a point, exactly when the change is not a number.
C16_ChangeFromEarliestPoint ==
  Computed =>
    \A w \in ChangeWindows :
      /\ ChangeValueOk(w)
      /\ w.field = Null <=> (~InWindow(w.start) \/ ChangeIsNaN(w))

\* a row at 00:00 whose 5D change is 74.6, from a close of 1.0 exactly five
\* days ago to a last close of 1.746
C16_Witness ==
  /\ Computed
  /\ cin.now.tod = 0
  /\ cin.pts[MatchedPoint(windows.d5)] = Pt(Today - 5, Milli(1000))
  /\ cin.pts[Len(cin.pts)].close = Milli(1746)
  /\ cout.d5 = Fin(373, 5)

\* the window starts of the reference instant are known
WindowsKnown == pc \in {"calc_in", "calc_done", "trace_done"}

\* n whole days lie between the instant start and the reference instant
IsDaysSince(start, n) ==
  /\ start + n * TicksPerDay <= Today * TicksPerDay + cin.now.tod
  /\ Today * TicksPerDay + cin.now.tod < start + (n + 1) * TicksPerDay

\* the whole days from the instant start to the reference instant, if they
\* are among the day counts of five and ten years (0 if not)
DaysSince(start) ==
  IF \E n \in {1826, 1827, 3652, 3653} : IsDaysSince(start, n)
  THEN CHOOSE n \in {1826, 1827, 3652, 3653} : IsDaysSince(start, n)
  ELSE 0

\* C17: the CAGR exponent is 365.25 over the whole days from the calendar
\* window start to now, whatever the timestamp of the matched point: the day
\* count is 1826 or 1827 for 5Y and 3652 or 3653 for 10Y for every now of
\* 2011 to 2099, and each CAGR field is, within its rounding, the growth of
\* the ratio over that many days.
C17_ExponentFromWindowStart ==
  /\ WindowsKnown =>
       /\ DaysSince(windows.y5) \in {1826, 1827}
       /\ DaysSince(windows.y10) \in {3652, 3653}
  /\ Computed =>
       \A w \in CagrWindows :
         LET P0 == cin.pts[MatchedPoint(w.start)].close
             P1 == Round2(cin.pts[Len(cin.pts)].close)
         IN  ( /\ InWindow(w.start) /\ DaysSince(w.start) > 0
               /\ IsFin(P0) /\ IsFin(P1) /\ P0.n > 0 /\ P1.n > 0 )
             => /\ IsFin(w.field)
                /\ WithinRoundTrip(w.field, FDiv(P1, P0), DaysSince(w.start))

\* a row whose matched point of both CAGR windows is 400 days old: the 5Y
\* CAGR of a rise from 1.0 to 100.0 is 151.2, the 10Y CAGR 58.5
C17_Witness ==
  /\ Computed
  /\ cin.pts[MatchedPoint(windows.y10)] = Pt(Today - 400, Milli(1000))
  /\ cin.pts[Len(cin.pts)].close = Milli(100000)
  /\ DaysSince(windows.y5) = 1826
  /\ cout.y5 = Fin(756, 5)
  /\ cout.y10 = Fin(117, 2)

\* a reference instant whose 5y window holds two leap days
C17_TwoLeapDays ==
  /\ WindowsKnown
  /\ DaysSince(windows.y5) = 1827
  /\ DaysSince(windows.y10) = 3653

(***************************************************************************)
(* The two roundings (specification SpecCalc).                             *)
(***************************************************************************)
\* the field of a CAGR window is the growth of numerator / matched close over
\* the days of the window, whenever both are positive numbers
CagrUses(w, numerator) ==
  LET P0 == cin.pts[MatchedPoint(w.start)].close
  IN  ( /\ InWindow(w.start) /\ DaysSince(w.start) > 0
        /\ IsFin(P0) /\ IsFin(numerator) /\ P0.n > 0 /\ numerator.n > 0 )
      => /\ IsFin(w.field)
         /\ WithinRoundTrip(w.field, FDiv(numerator, P0), DaysSince(w.start))

\* the field of a percentage window is the change from the matched close to
\* numerator, whenever both are numbers and the matched close is not zero
ChangeUses(w, numerator) ==
  LET R == cin.pts[MatchedPoint(w.start)].close
  IN  (InWindow(w.start) /\ IsFin(numerator) /\ IsFin(R) /\ R.n # 0) =>
        IsChangeOf(w.field, numerator, R)

\* C18 as stated: the last close rounded to 2 decimals is the numerator of
\* the 5D, MTD and YTD changes and of the 5Y and 10Y CAGR.
C18_RoundedNumeratorEverywhere ==
  Computed =>
    LET latest_price == Round2(cin.pts[Len(cin.pts)].close)
    IN  /\ \A w \in ChangeWindows : ChangeUses(w, latest_price)
        /\ \A w \in CagrWindows : CagrUses(w, latest_price)

\* C18, amended: the last close rounded to 2 decimals is the numerator of the
\* 5Y and 10Y CAGR; the 5D, MTD and YTD changes are computed from the last
\* close as it is.
C18_RoundedNumeratorInCagr ==
  Computed =>
    LET latest_close == cin.pts[Len(cin.pts)].close
    IN  /\ \A w \in ChangeWindows : ChangeUses(w, latest_close)
        /\ \A w \in CagrWindows : CagrUses(w, Round2(latest_close))

\* a row at 00:00 for a last close of 0.346 after closes of 1.0: the 5D
\* change is -65.4 (from 0.346), the 5Y CAGR -18.9 (from 0.35)
C18_Witness ==
  /\ Computed
  /\ cin.now.tod = 0
  /\ cin.pts[Len(cin.pts)].close = Milli(346)
  /\ cin.pts[MatchedPoint(windows.d5)] = Pt(Today - 5, Milli(1000))
  /\ cin.pts[MatchedPoint(windows.y5)].close = Milli(1000)
  /\ cout.d5 = Fin(-327, 5)
  /\ cout.y5 = Fin(-189, 10)

Periods ==
  {[token |-> <<"5", "d">>, start |-> windows.d5],
   [token |-> <<"m", "t", "d">>, start |-> windows.mtd],
   [token |-> <<"y", "t", "d">>, start |-> windows.ytd],
   [token |-> <<"5", "y">>, start |-> windows.y5],
   [token |-> <<"1", "0", "y">>, start |-> windows.y10]}

\* the points of the series that a chart handler asks the provider for with
\* start_date = token: those dated on or after the start date it sends
RequestedByChart(token) ==
  {i \in 1..Len(cin.pts) :
     cin.pts[i].t >= Strftime(ResolveStart(token, cin.now))}

\* C20: for each period, the points of a series that a table handler counts
\* as inside the window are the points that a chart handler requests for that
\* period at the same instant.
C20_SameWindowPoints ==
  (Computed \/ Traced) =>
    \A p \in Periods : Mask(cin.pts, p.start) = RequestedByChart(p.token)

\* after 00:00, a point dated five days ago is requested by the chart for 5d
\* and is outside the 5D window of the table
C20_FiveDaysAgo ==
  /\ Computed
  /\ cin.now.tod > 0
  /\ \E i \in 1..Len(cin.pts) :
       /\ cin.pts[i].t = Today - 5
       /\ i \in RequestedByChart(<<"5", "d">>)
       /\ i \notin Mask(cin.pts, windows.d5)

(***************************************************************************)
(* The loop over the basket (specification SpecLive).                      *)
(***************************************************************************)
\* the fetches made so far are those of the first symbols of the basket, one
\* each and in basket order, and each fetched symbol has been appended or
\* skipped; a returned request has fetched the whole basket
FetchedInOrder ==
  (request.endpoint # "" /\ response.kind # "error") =>
    /\ Len(fetched) = idx - 1
    /\ Len(fetched) <= Len(Basket(request.endpoint))
    /\ \A k \in 1..Len(fetched) :
         fetched[k].symbol = Basket(request.endpoint)[k][1]
    /\ Len(results) = Cardinality({k \in 1..Len(fetched) : Survives(fetched[k].ans)})
    /\ pc = "done" => Len(fetched) = Len(Basket(request.endpoint))

\* a step makes at most one fetch and leaves the earlier fetches as they are
OneFetchAtATime ==
  /\ Len(fetched') <= Len(fetched) + 1
  /\ \A k \in 1..Len(fetched) : k <= Len(fetched') /\ fetched'[k] = fetched[k]

\* C21: within a request every symbol of the basket is fetched exactly once,
\* in basket order and one at a time, whatever the fetches return; a fetch
\* that raises or returns a short series is not retried; and the request
\* returns, after as many fetches as the basket has symbols.
C21_EachSymbolFetchedOnce ==
  /\ []FetchedInOrder
  /\ [][OneFetchAtATime]_vars
  /\ (pc = "loop") ~> (pc = "done" /\ Len(fetched) = Len(Basket(request.endpoint)))

\* a returned request both of whose fetches failed, the first by raising and
\* the second by a series of one point: two fetches, no row
C21_Witness ==
  /\ pc = "done" /\ response.kind \in {"list", "chart"}
  /\ Len(fetched) = 2
  /\ fetched[1].ans = Raised
  /\ ShortAnswer(fetched[2].ans) /\ Len(fetched[2].ans.pts) = 1
  /\ response.body = <<>>

(***************************************************************************)
(* Two requests side by side: the handlers are plain `def` routes, which   *)
(* the server runs on worker threads, so the steps of two calls may        *)
(* interleave; the clock moves while they run.                             *)
(***************************************************************************)
Reqs == {1, 2}

\* one table and one chart endpoint
TwoEndpoints == {"equities_table", "equity_performance"}

\* the clock at the start: the last tick of a year
Clock0 == [y |-> 2019, m |-> 12, d |-> 31, tod |-> TicksPerDay - 1]

\* the instant one tick after now
NextInstant(now) ==
  IF now.tod < TicksPerDay - 1 THEN [now EXCEPT !.tod = now.tod + 1]
  ELSE IF now.d < DaysInMonth(now.y, now.m)
    THEN [now EXCEPT !.d = now.d + 1, !.tod = 0]
  ELSE IF now.m < 12 THEN [now EXCEPT !.m = now.m + 1, !.d = 1, !.tod = 0]
  ELSE [y |-> now.y + 1, m |-> 1, d |-> 1, tod |-> 0]

\* the clock is followed over the turn of the year, up to the first tick of
\* the next year
ClockEnd == NextInstant(Clock0)

\* what the provider may answer: an exception, or a frame of two rows, the
\* last of them in the year of Clock0
TwoAnswers ==
  LET D == Ordinal(Clock0.y, Clock0.m, Clock0.d)
  IN  {Raised,
       Frame(TRUE, <<Pt(D - 400, Milli(50000)), Pt(D - 1, Milli(100000))>>)}

\* the locals of a call that has not started
NoReq ==
  [pc |-> "idle", endpoint |-> "", arg |-> <<>>, end_date |-> NoDate,
   windows |-> NoWindows, fetch_start |-> 0, idx |-> 0, df |-> NoFrame,
   results |-> <<>>, fetched |-> <<>>, response |-> NoResponse]

\* mutant of LoopNow: the clock is read again in every iteration
LoopNowReread(read, current) == current

\* the reference instant an iteration of the loop computes with: end_date,
\* assigned once before the loop, whatever the clock says by then
LoopNow(read, current) == read

\* mutant of ResultsSlot: one list at module level for all calls
ResultsSlotShared(r) == 1

\* whose list `results` (or `figure`) names in call r: the local of that call
ResultsSlot(r) == r

\* entry of a handler up to the loop, for the clock reading now
StartReq(e, arg, now) ==
  IF WindowsRaise(now)
  THEN [NoReq EXCEPT !.pc = "done", !.endpoint = e, !.arg = arg,
                     !.end_date = now,
                     !.response = [kind |-> "error", body |-> <<"ValueError">>]]
  ELSE [NoReq EXCEPT
          !.pc = "loop", !.endpoint = e, !.arg = arg, !.end_date = now,
          !.windows = IF e \in TableEndpoints THEN TableWindows(now)
                      ELSE ChartWindows(now),
          !.fetch_start = IF e \in TableEndpoints THEN Strftime(start_10y(now))
                          ELSE Strftime(ResolveStart(Bound(arg), now)),
          !.idx = 1]

\* one iteration of the loop of call q, whose fetch is answered by ans at the
\* clock reading at
StepReq(q, ans, at) ==
  LET e == q.endpoint
      symbol == Basket(e)[q.idx][1]
      name == Basket(e)[q.idx][2]
      n == Len(Basket(e))
      f == [q EXCEPT !.fetched = Append(q.fetched,
                                         [symbol |-> symbol, start |-> q.fetch_start,
                                          ans |-> ans, at |-> at])]
  IN  IF ans.kind = "raise" THEN [f EXCEPT !.idx = Continue(q.idx, n)]
      ELSE IF IsShort(ans)
        THEN [f EXCEPT !.df = Received(ans.pts), !.idx = q.idx + 1]
      ELSE IF ComputeRaises(ans)
        THEN [f EXCEPT !.df = Received(ans.pts), !.idx = Continue(q.idx, n)]
      ELSE IF e \in TableEndpoints
        THEN [f EXCEPT !.df = FrameAfterRow(Received(ans.pts)),
                       !.results = AppendResult(q.results,
                                                TableRow(e, name, ans.pts,
                                                         LoopNow(q.end_date, at))),
                       !.idx = q.idx + 1]
      ELSE [f EXCEPT !.df = Received(ans.pts),
                     !.results = AppendResult(q.results, Trace(name, ans.pts)),
                     !.idx = q.idx + 1]

\* the iteration prints `Error processing {symbol}: ...`
StepPrints(ans) == ans.kind = "raise" \/ (~IsShort(ans) /\ ComputeRaises(ans))

\* return results / return json.loads(figure.to_json())
ReturnReq(q) ==
  [q EXCEPT !.pc = "done",
            !.response = [kind |-> IF q.endpoint \in TableEndpoints THEN "list"
                                   ELSE "chart",
                          body |-> q.results]]

\* the locals call r works with
View(all, r) == [all[r] EXCEPT !.results = all[ResultsSlot(r)].results]

\* the locals of all calls after call r has moved to new
Store(all, r, new) ==
  [x \in Reqs |->
     IF x = ResultsSlot(r)
     THEN (IF x = r THEN new ELSE [all[x] EXCEPT !.results = new.results])
     ELSE IF x = r THEN [new EXCEPT !.results = all[r].results]
     ELSE all[x]]

InitTwo ==
  /\ pc = "two"
  /\ request = NoRequest
  /\ end_date = NoDate
  /\ windows = NoWindows
  /\ fetch_start = 0
  /\ idx = 0
  /\ df = NoFrame
  /\ results = <<>>
  /\ fetched = <<>>
  /\ printed = <<>>
  /\ response = NoResponse
  /\ cin = NoInput
  /\ cout = NoRow
  /\ clock = Clock0
  /\ rq = [r \in Reqs |-> NoReq]

others ==
  <<pc, request, end_date, windows, fetch_start, idx, df, results, fetched,
    response, cin, cout>>

\* a call arrives (the calls are numbered in the order of their arrival)
TwoStart(r, e, arg) ==
  /\ rq[r].pc = "idle"
  /\ \A x \in Reqs : x < r => rq[x].pc # "idle"
  /\ rq' = Store(rq, r, StartReq(e, arg, clock))
  /\ UNCHANGED <<others, printed, clock>>

\* a call makes one iteration of its loop
TwoStep(r, ans) ==
  /\ rq[r].pc = "loop"
  /\ rq[r].idx <= Len(Basket(rq[r].endpoint))
  /\ rq' = Store(rq, r, StepReq(View(rq, r), ans, clock))
  /\ printed' = IF StepPrints(ans)
                THEN Append(printed, Basket(rq[r].endpoint)[rq[r].idx][1])
                ELSE printed
  /\ UNCHANGED <<others, clock>>

\* a call returns
TwoReturn(r) ==
  /\ rq[r].pc = "loop"
  /\ rq[r].idx > Len(Basket(rq[r].endpoint))
  /\ rq' = Store(rq, r, ReturnReq(View(rq, r)))
  /\ UNCHANGED <<others, printed, clock>>

\* time passes while a call is in its loop
Tick ==
  /\ \E r \in Reqs : rq[r].pc = "loop"
  /\ clock # ClockEnd
  /\ clock' = NextInstant(clock)
  /\ UNCHANGED <<others, printed, rq>>

NextTwo ==
  \/ \E r \in Reqs, e \in TwoEndpoints :
       TwoStart(r, e, IF e \in TableEndpoints THEN <<>> ELSE Omitted)
  \/ \E r \in Reqs, ans \in TwoAnswers : TwoStep(r, ans)
  \/ \E r \in Reqs : TwoReturn(r)
  \/ Tick

SpecTwo == InitTwo /\ [][NextTwo]_vars

(***************************************************************************)
(* Properties of two requests side by side (specification SpecTwo).        *)
(***************************************************************************)
\* call r has its window starts
Running(r) == rq[r].pc \in {"loop", "done"} /\ rq[r].response.kind # "error"

\* what call r has built, or returns, is what the same handler builds alone
\* for the reference instant and the provider answers of call r
AsWhenAlone(r) ==
  LET q == rq[r]
      alone == OutputOf(q.endpoint, SelectSeq(q.fetched, NotFailing), q.end_date)
  IN  /\ q.results = alone
      /\ q.pc = "done" =>
           q.response = [kind |-> IF q.endpoint \in TableEndpoints THEN "list"
                                  ELSE "chart",
                         body |-> alone]

\* a step changes the locals of one call at most
OneCallMoves == Cardinality({r \in Reqs : rq'[r] # rq[r]}) <= 1

\* C22: however the steps of two calls interleave, each call builds and
\* returns what it returns alone for its own now and its own provider
\* answers, and no step of one call changes a local of the other.
C22_NoSharedState ==
  /\ [](\A r \in Reqs : Running(r) => AsWhenAlone(r))
  /\ [][OneCallMoves]_vars

\* two calls, a table and a chart, both in the middle of their loops, each
\* with one fetch made and its own one item
C22_Witness ==
  /\ rq[1].pc = "loop" /\ rq[2].pc = "loop"
  /\ rq[1].endpoint # rq[2].endpoint
  /\ Len(rq[1].fetched) = 1 /\ Len(rq[2].fetched) = 1
  /\ Len(rq[1].results) = 1 /\ Len(rq[2].results) = 1
  /\ rq[1].results # rq[2].results

(***************************************************************************)
(* The six table routines (specification Spec).                            *)
(***************************************************************************)
\* the fetched series has at least 2 points and closes: get_equities_table
\* does not skip it
EntrySurvives(entry) == Survives(entry.ans)

\* the six values of a row
Metrics(row) == <<row.d5, row.mtd, row.ytd, row.y5, row.y10, row.value>>

PositiveCloses ==
  \A i \in 1..Len(cin.pts) : IsFin(cin.pts[i].close) /\ cin.pts[i].close.n > 0

\* C24: the window starts are ordered, start_10y < start_5y < start_ytd <=
\* start_mtd, for every now; and in a row over a series of positive closes a
\* null 10Y CAGR comes with a null 5Y CAGR, a null 5Y CAGR with a null YTD,
\* and a null YTD with a null MTD.
C24_AbsenceIsMonotone ==
  /\ WindowsKnown =>
       /\ windows.y10 < windows.y5
       /\ windows.y5 < windows.ytd
       /\ windows.ytd <= windows.mtd
  /\ (Computed /\ PositiveCloses) =>
       /\ cout.y10 = Null => cout.y5 = Null
       /\ cout.y5 = Null => cout.ytd = Null
       /\ cout.ytd = Null => cout.mtd = Null

\* a row over positive closes whose last point is older than five years and
\* younger than ten: 10Y CAGR is a number, and 5Y CAGR, YTD and MTD are null
C24_Witness ==
  /\ Computed /\ PositiveCloses
  /\ cout.y10 # Null
  /\ cout.y5 = Null /\ cout.ytd = Null /\ cout.mtd = Null

(***************************************************************************)
(* The numbers of a row (specification SpecCalc).                          *)
(***************************************************************************)
\* C25: in a row over a series of at least 2 points every metric is null or
\* a finite number and Value is a finite number, whatever the closes are (a
\* zero close at a matched point and a not-a-number last close included).
C25_EveryFieldFinite ==
  Computed =>
    /\ \A f \in {cout.d5, cout.mtd, cout.ytd, cout.y5, cout.y10} :
         f = Null \/ IsFin(f)
    /\ IsFin(cout.value)

\* a row whose Value is not-a-number: the last close is not-a-number
C25_ValueIsNaN ==
  /\ Computed
  /\ IsNaN(cin.pts[Len(cin.pts)].close)
  /\ IsNaN(cout.value)

\* a row with an infinite 5D change: the close at the matched point is zero
C25_InfiniteChange ==
  /\ Computed
  /\ InWindow(windows.d5)
  /\ cin.pts[MatchedPoint(windows.d5)].close = Milli(0)
  /\ cout.d5 = PosInf

(***************************************************************************)
(* The 10Y CAGR of a series fetched from the 10y window start              *)
(* (specification SpecCalc).                                               *)
(***************************************************************************)
\* the series has only points dated on or after the start date of the fetch
\* of a table handler, the day of the 10y window start
FetchedFromStart ==
  \A i \in 1..Len(cin.pts) : cin.pts[i].t * TicksPerDay >= windows.y10

\* C26: in a row over a series of positive closes that has only points on or
\* after the 10y window start, the 10Y CAGR is a number and is the growth
\* from the close of the first point of the series to the rounded last close.
C26_TenYearFromFirstPoint ==
  (Computed /\ PositiveCloses /\ FetchedFromStart) =>
    /\ cout.y10 # Null
    /\ IsFin(cout.y10)
    /\ WithinRoundTrip(cout.y10,
                       FDiv(Round2(cin.pts[Len(cin.pts)].close), cin.pts[1].close),
                       DaysSince(windows.y10))

\* a row over three points inside the 10y window, with closes 1.0, 1.0 and
\* 100.0: the 10Y CAGR is 58.5
C26_Witness ==
  /\ Computed /\ PositiveCloses /\ FetchedFromStart
  /\ Len(cin.pts) = 3
  /\ cin.pts[1].close = Milli(1000)
  /\ cin.pts[3].close = Milli(100000)
  /\ cout.y10 = Fin(117, 2)

(***************************************************************************)
(* The reference instant of a request while time advances (specification   *)
(* SpecTwo).                                                               *)
(***************************************************************************)
\* the fetches of call r whose series got an item
Kept(r) == SelectSeq(rq[r].fetched, EntrySurvives)

\* the five window starts of call r are those of the instant it read
WindowsOfOwnNow(r) ==
  LET q == rq[r]
  IN  /\ q.windows.d5 = WindowDay("5d", q.end_date) * TicksPerDay + q.end_date.tod
      /\ q.windows.mtd = WindowDay("mtd", q.end_date) * TicksPerDay
      /\ q.windows.ytd = WindowDay("ytd", q.end_date) * TicksPerDay
      /\ q.windows.y5 = WindowDay("5y", q.end_date) * TicksPerDay
      /\ q.windows.y10 = WindowDay("10y", q.end_date) * TicksPerDay

\* every fetch of call r asked for the series from the same day, the day of
\* the window start of the instant the call read
OneFetchStart(r) ==
  LET q == rq[r]
      day == IF q.endpoint \in TableEndpoints THEN WindowDay("10y", q.end_date)
             ELSE WindowDay(PeriodOf(q.arg), q.end_date)
  IN  \A k \in 1..Len(q.fetched) : q.fetched[k].start = day

\* every row of table call r is computed over the window starts of the call,
\* whatever the clock read when its series arrived
RowsOverOwnWindows(r) ==
  LET q == rq[r]
  IN  q.endpoint \in TableEndpoints =>
        /\ Len(q.results) = Len(Kept(r))
        /\ \A i \in 1..Len(q.results) :
             LET pts == Kept(r)[i].ans.pts
                 row == q.results[i]
             IN  /\ row.d5 = Field(ChangePct(pts, q.windows.d5))
                 /\ row.mtd = Field(ChangePct(pts, q.windows.mtd))
                 /\ row.ytd = Field(ChangePct(pts, q.windows.ytd))
                 /\ row.y5 = Field(Cagr(pts, q.windows.y5, q.end_date))
                 /\ row.y10 = Field(Cagr(pts, q.windows.y10, q.end_date))

\* C27: a request reads now once, before its loop: its five window starts and
\* the start day of every fetch are those of that one instant, for every
\* symbol, also when the clock passes midnight and the year end between two
\* of its fetches, and every row is computed over these window starts.
C27_NowReadOnce ==
  \A r \in Reqs :
    Running(r) => /\ WindowsOfOwnNow(r)
                  /\ OneFetchStart(r)
                  /\ RowsOverOwnWindows(r)

\* a table request that read now on 31 December 2019 and got its second
\* series on 1 January 2020: both fetches asked for the same day and the
\* second row has the YTD change of 2019
C27_Witness ==
  \E r \in Reqs :
    /\ Running(r) /\ rq[r].endpoint \in TableEndpoints
    /\ rq[r].end_date = Clock0
    /\ Len(rq[r].fetched) = 2 /\ Len(rq[r].results) = 2
    /\ rq[r].fetched[1].at = Clock0
    /\ rq[r].fetched[2].at = ClockEnd
    /\ rq[r].fetched[1].start = rq[r].fetched[2].start
    /\ rq[r].results[2].ytd = Fin(0, 1)
    /\ Metrics(rq[r].results[1]) = Metrics(rq[r].results[2])

====
